---- MODULE Spec2Model ----
(***************************************************************************)
(* The KompGen loaders of cmscontrib/loaders/kompgen.py as a state machine. *)
(*                                                                         *)
(* One behaviour is one import invocation: KGTaskLoader.get_task or        *)
(* KGContestLoader.get_contest or get_user on a read-only tree.  The file  *)
(* system and the descriptors are inputs.  Which directories hold the      *)
(* descriptor files is fixed in Init; the content of a file, the outcome   *)
(* of an existence test and the listing of tests/ are drawn at the step    *)
(* that reads them (each is read once; the tree does not change during an  *)
(* import).  File names in tests/ are sequences of one-character strings   *)
(* so that os.path.splitext and the string order of sorted() are computed  *)
(* as Python computes them.                                                *)
(***************************************************************************)
EXTENDS Integers, Sequences, FiniteSets, TLC

\* ---------------------------------------------------------------- bounds
MaxDepth == 1          \* segments of the import path
MaxAttachments == 2    \* entries of the descriptor's attachments list
MaxListing == 4        \* entries of tests/
MaxLangs == 3          \* entries of the contest's languages list
MaxUsers == 2          \* entries of the user list

\* ------------------------------------------------------- values and names
None == "None"               \* Python None (JSON null) where a string is expected
NoObject == [none |-> TRUE]  \* Python None where an object is expected

\* A key of a parsed JSON object maps to the sequence of its values: empty
\* when the key is absent, one value otherwise.  The same shape holds a value
\* that is not known before the step that reads it.
Absent == <<>>
Some(v) == <<v>>

KG_TASK == "kg_cms_task.json"
KG_CONTEST == "kg_cms_contest.json"
KG_USERS == "kg_cms_users.json"

Range(s) == {s[i] : i \in DOMAIN s}

SeqsUpTo(S, n) == UNION {[1..k -> S] : k \in 0..n}

\* dict.get(key, default) on a parsed JSON object
Get(config, key, default) ==
    IF config[key] = Absent THEN default ELSE config[key][1]

\* ------------------------------------------------------------ exceptions
KGLoaderException(kind, arg) ==
    [exc |-> "KGLoaderException", kind |-> kind, arg |-> arg]

BuiltinError(exc, arg) == [exc |-> exc, kind |-> exc, arg |-> arg]

\* ------------------------------------------------------------ path names
PathSegments == {"alice"}

Paths == SeqsUpTo(PathSegments, MaxDepth)

\* os.path.dirname of a normalised absolute path; the root is its own parent
dirname(p) == IF p = <<>> THEN <<>> ELSE SubSeq(p, 1, Len(p) - 1)

contest_path_candidatesParentFirst(p) == <<dirname(p), p>>

\* os.path.basename of a normalised absolute path; empty for the root
basename(p) == IF p = <<>> THEN "" ELSE p[Len(p)]

\* contest_path_candidates: the path, then its dirname
contest_path_candidates(p) == <<p, dirname(p)>>

\* ------------------------------------------------- file names and strings
Dot == "."

ord(c) ==
    CASE c = "." -> 46 [] c = "0" -> 48 [] c = "1" -> 49 [] c = "9" -> 57
      [] c = "a" -> 97 [] c = "i" -> 105 [] c = "n" -> 110 [] c = "s" -> 115
      [] c = "t" -> 116 [] c = "x" -> 120

\* Python's str < str: code point order, a proper prefix is smaller
RECURSIVE StrLess(_, _)
StrLess(a, b) ==
    IF b = <<>> THEN FALSE
    ELSE IF a = <<>> THEN TRUE
    ELSE IF ord(Head(a)) # ord(Head(b)) THEN ord(Head(a)) < ord(Head(b))
    ELSE StrLess(Tail(a), Tail(b))

\* str.rfind(".") + 1 (0 when there is no dot)
RFindDot(p) ==
    IF \E i \in DOMAIN p : p[i] = Dot
    THEN CHOOSE i \in DOMAIN p : p[i] = Dot /\ \A j \in DOMAIN p : p[j] = Dot => j <= i
    ELSE 0

\* os.path.splitext on a name without separators: split at the last dot,
\* unless only dots precede it (leading dots belong to the root)
splitext(p) ==
    LET d == RFindDot(p) IN
    IF d > 0 /\ \E i \in 1..(d - 1) : p[i] # Dot
    THEN [root |-> SubSeq(p, 1, d - 1), ext |-> SubSeq(p, d, Len(p))]
    ELSE [root |-> p, ext |-> <<>>]

ExtIn == <<".", "i", "n">>
ExtAns == <<".", "a", "n", "s">>

\* the names that may appear in tests/
TestFiles ==
    { <<"1", "0">> \o ExtIn, <<"1", "0">> \o ExtAns,
      <<"9">> \o ExtIn, <<"9">> \o ExtAns,
      <<"9", ".", "t", "x", "t">>, ExtIn }

Injective(s) == \A i, j \in DOMAIN s : s[i] = s[j] => i = j

\* os.listdir: the entries of the directory, each once, in any order
Listings == {l \in SeqsUpTo(TestFiles, MaxListing) : Injective(l)}

\* ------------------------------------------------------------- blob store
\* file_cacher.put_file_from_path returns the digest of the file's content
Digest(file) == [sha |-> file]

PutCall(what, file) == [what |-> what, file |-> file]

\* ------------------------------------------------------------- descriptors
AttachmentNames == {"x"}

TaskTypes == {"Batch", "Communication", "OutputOnly"}

Opt(S) == {Absent} \cup {Some(v) : v \in S}

\* parsed task descriptors; node_count and io_type are read for the
\* Communication type only
TaskConfigs ==
    { c \in [ name : Opt({None, "", "t"}),
              statement : Opt({"statement.pdf"}),
              attachments : Opt(SeqsUpTo(AttachmentNames, MaxAttachments)),
              task_type : Opt(TaskTypes),
              node_count : Opt({2}),
              io_type : Opt({"std_io"}) ] :
        c.task_type # Some("Communication") => c.node_count = Absent /\ c.io_type = Absent }

\* ---------------------------------------------------- contest descriptors
LANGUAGE_MAPPING ==
    [code \in {"c++", "cpp", "java", "python3", "pypy3"} |->
        CASE code = "c++" -> "C++17 / g++"
          [] code = "cpp" -> "C++17 / g++"
          [] code = "java" -> "Java / JDK"
          [] code = "python3" -> "Python 3 / CPython"
          [] code = "pypy3" -> "Python 3 / PyPy"]

\* CONTEST_DEFAULTS['languages']
DefaultLanguages == <<"cpp", "java", "python3">>

LanguageCodes == {"cpp", "java", "unknown-lang"}

ContestConfigs ==
    [ name : Opt({None, "", "c"}),
      languages : Opt(SeqsUpTo(LanguageCodes, MaxLangs)),
      problems : Opt({<<"p2", "p1">>}) ]

UserEntries ==
    [ type : {"user", "admin"}, username : {"alice"}, password : {"pw"} ]
      \cup [ type : {"user"}, username : {"bob"}, password : {"pw"} ]

UserLists == SeqsUpTo(UserEntries, MaxUsers)

VARIABLES
    call,            \* the entry point invoked and its arguments
    path,            \* self.path
    fs,              \* descriptor file name -> the directories that hold it
    pc,              \* position in the invoked method
    error,           \* the exception that ended the call, or None
    puts,            \* the blob-store put calls issued so far, in order
    kg_file,         \* descriptor file name -> the directory it was read from
    task_config,     \* the parsed task descriptor
    fields,          \* the keyword arguments being collected
    att_i,           \* attachments loop: entries handled so far
    task,            \* the Task object
    checker_found,   \* os.path.exists(checker_path), once evaluated
    evaluation_param,\* the local evaluation_param
    listing,         \* os.listdir(tests_path), once evaluated
    test_bases,      \* the IOPair accumulator, in insertion order
    tc_i,            \* testcases loop: stems handled so far
    dataset,         \* the Dataset object
    cand,            \* contest_path_candidates: directories tried so far
    contest_config,  \* the parsed contest descriptor
    contest,         \* the Contest object
    tasks,           \* the task names of the contest
    user_list,       \* the parsed user list
    participations,  \* the minimal participations
    user_entry,      \* get_user: the user-list entry that matched, as read
    result           \* the value returned to the caller

vars == << call, path, fs, pc, error, puts, kg_file, task_config, fields, att_i,
           task, checker_found, evaluation_param, listing, test_bases, tc_i, dataset, cand, contest_config, contest, tasks, user_list,
           participations, user_entry, result >>

envVars == << call, path, fs >>

\* the locals of _create_and_attach_dataset
datasetVars == << checker_found, evaluation_param, listing, test_bases, tc_i, dataset >>

\* the state of KGTaskLoader.get_task
taskVars == << task_config, att_i, task, datasetVars >>

\* the state of KGContestLoader.get_contest
contestVars == << cand, contest_config, contest, tasks, user_list, participations >>

Raise(e) == /\ pc' = "raised"
            /\ error' = e

\* ------------------------------------------------------------------ Init
DescriptorFiles == {KG_TASK, KG_CONTEST, KG_USERS}

Init ==
    /\ path \in Paths
    /\ call \in [name : {"get_task"}, get_statement : BOOLEAN]
                \cup [name : {"get_contest", "get_user"}, get_statement : {FALSE}]
    /\ LET dirs == SUBSET Range(contest_path_candidates(path)) IN
       IF call.name = "get_task"
       THEN fs \in [DescriptorFiles -> dirs] /\ fs[KG_CONTEST] = {} /\ fs[KG_USERS] = {}
       ELSE IF call.name = "get_user"
       THEN fs \in [DescriptorFiles -> dirs] /\ fs[KG_TASK] = {} /\ fs[KG_CONTEST] = {}
       ELSE fs \in [DescriptorFiles -> dirs] /\ fs[KG_TASK] = {}
    /\ pc = "start"
    /\ error = NoObject
    /\ puts = <<>>
    /\ kg_file = [f \in DescriptorFiles |-> Absent]
    /\ task_config = NoObject
    /\ fields = NoObject
    /\ att_i = 0
    /\ task = NoObject
    /\ checker_found = Absent
    /\ evaluation_param = None
    /\ listing = Absent
    /\ test_bases = <<>>
    /\ tc_i = 0
    /\ dataset = NoObject
    /\ cand = 0
    /\ contest_config = NoObject
    /\ contest = NoObject
    /\ tasks = Absent
    /\ user_list = Absent
    /\ participations = Absent
    /\ user_entry = NoObject
    /\ result = NoObject

\* ------------------------------------------------- KGTaskLoader.get_task
\* _get_task_config: open(os.path.join(self.path, KG_TASK)) and json.load
GetTaskConfig ==
    /\ call.name = "get_task" /\ pc = "start"
    /\ IF path \in fs[KG_TASK]
       THEN /\ \E c \in TaskConfigs : task_config' = c
            /\ kg_file' = [kg_file EXCEPT ![KG_TASK] = Some(path)]
            /\ pc' = "task_fields"
            /\ UNCHANGED error
       ELSE /\ Raise(BuiltinError("FileNotFoundError", KG_TASK))
            /\ UNCHANGED << task_config, kg_file >>
    /\ UNCHANGED << envVars, user_entry, contestVars, puts, fields, att_i, task, datasetVars, result >>

NameMissingNoneOnly(name) == name = None

\* `if not name`
NameMissing(name) == name \in {None, ""}

\* _get_task: the basic fields and the name check
InitTaskFields ==
    /\ pc = "task_fields"
    /\ LET name == Get(task_config, "name", None) IN
       IF NameMissing(name)
       THEN /\ Raise(KGLoaderException("MissingField", "name"))
            /\ UNCHANGED fields
       ELSE /\ fields' = [name |-> name, statements |-> <<>>,
                          primary_statements |-> <<>>, attachments |-> <<>>,
                          submission_format |-> <<>>]
            /\ pc' = IF call.get_statement THEN "statement" ELSE "attachments"
            /\ UNCHANGED error
    /\ UNCHANGED << envVars, user_entry, contestVars, puts, kg_file, task_config, att_i, task,
                    datasetVars, result >>

\* _get_task: load the statement
LoadStatement ==
    /\ pc = "statement"
    /\ IF task_config.statement = Absent
       THEN /\ Raise(BuiltinError("KeyError", "statement"))
            /\ UNCHANGED << puts, fields >>
       ELSE LET statement == task_config.statement[1] IN
            \E isfile \in BOOLEAN :
              IF ~isfile
              THEN /\ Raise(KGLoaderException("MissingResource", statement))
                   /\ UNCHANGED << puts, fields >>
              ELSE /\ puts' = Append(puts, PutCall("statement", statement))
                   /\ fields' = [fields EXCEPT
                         !.primary_statements = <<"en">>,
                         !.statements = [l \in {"en"} |->
                             [language |-> l, digest |-> Digest(statement)]]]
                   /\ pc' = "attachments"
                   /\ UNCHANGED error
    /\ UNCHANGED << envVars, user_entry, contestVars, kg_file, task_config, att_i, task, datasetVars,
                    result >>

\* _get_task: one iteration of the attachments loop, or its end
LoadAttachment ==
    /\ pc = "attachments"
    /\ LET attachments == Get(task_config, "attachments", <<>>) IN
       IF att_i >= Len(attachments)
       THEN /\ pc' = "task_type"
            /\ UNCHANGED << error, puts, fields, att_i >>
       ELSE LET attachment == attachments[att_i + 1]
                loaded == fields.attachments
            IN
            \* a file already loaded in this run exists; any other may or may not
            \E isfile \in (IF attachment \in DOMAIN loaded THEN {TRUE} ELSE BOOLEAN) :
              IF ~isfile
              THEN /\ Raise(KGLoaderException("MissingResource", attachment))
                   /\ UNCHANGED << puts, fields, att_i >>
              ELSE IF attachment \in DOMAIN loaded
              THEN /\ Raise(KGLoaderException("DuplicateResource", attachment))
                   /\ UNCHANGED << puts, fields, att_i >>
              ELSE /\ puts' = Append(puts, PutCall("attachment", attachment))
                   /\ fields' = [fields EXCEPT !.attachments =
                         [a \in DOMAIN loaded \cup {attachment} |->
                             IF a = attachment
                             THEN [filename |-> a, digest |-> Digest(a)]
                             ELSE loaded[a]]]
                   /\ att_i' = att_i + 1
                   /\ UNCHANGED << pc, error >>
    /\ UNCHANGED << envVars, user_entry, contestVars, kg_file, task_config, task, datasetVars, result >>

SupportedTaskTypes == {"Batch", "Communication"}

\* Task(**fields): a new Task, not yet linked to a dataset
Task(kwargs) == kwargs @@ [active_dataset |-> NoObject]

\* _get_task: the task-type-specific fields, then Task(**fields)
SetTaskType ==
    /\ pc = "task_type"
    /\ IF task_config.task_type = Absent
       THEN /\ Raise(BuiltinError("KeyError", "task_type"))
            /\ UNCHANGED << fields, task >>
       ELSE IF task_config.task_type[1] \in SupportedTaskTypes
       THEN /\ fields' = [fields EXCEPT !.submission_format = <<fields.name \o ".%l">>]
            /\ task' = Task(fields')
            /\ pc' = "checker"
            /\ UNCHANGED error
       ELSE /\ Raise(KGLoaderException("UnsupportedTaskType", task_config.task_type[1]))
            /\ UNCHANGED << fields, task >>
    /\ UNCHANGED << envVars, user_entry, contestVars, puts, kg_file, task_config, att_i, datasetVars,
                    result >>

\* ------------------------------ KGTaskLoader._create_and_attach_dataset
Manager(filename) == [filename |-> filename, digest |-> Digest(filename)]

EvaluationParamAlwaysDiff(found) == "diff"

\* the evaluation parameter chosen by the checker branch
EvaluationParam(found) == IF found THEN "comparator" ELSE "diff"

\* the dataset fields, then the checker
SetChecker ==
    /\ pc = "checker"
    /\ \E exists \in BOOLEAN :
         /\ checker_found' = Some(exists)
         /\ evaluation_param' = EvaluationParam(exists)
         /\ fields' = [task |-> task.name,
                       task_type |-> Get(task_config, "task_type", "Batch"),
                       description |-> "Default",
                       managers |-> IF exists
                                    THEN [m \in {"checker"} |-> Manager(m)]
                                    ELSE <<>>,
                       task_type_parameters |-> <<>>,
                       testcases |-> <<>>]
         /\ puts' = IF exists THEN Append(puts, PutCall("checker", "checker")) ELSE puts
    /\ pc' = "manager"
    /\ UNCHANGED << envVars, user_entry, contestVars, error, kg_file, task_config, att_i, task, listing,
                    test_bases, tc_i, dataset, result >>

\* the manager ("interactor")
SetManager ==
    /\ pc = "manager"
    /\ \E exists \in BOOLEAN :
         IF exists
         THEN /\ puts' = Append(puts, PutCall("manager", "manager"))
              /\ fields' = [fields EXCEPT !.managers =
                    [m \in DOMAIN fields.managers \cup {"manager"} |-> Manager(m)]]
         ELSE UNCHANGED << puts, fields >>
    /\ pc' = "parameters"
    /\ UNCHANGED << envVars, user_entry, contestVars, error, kg_file, task_config, att_i, task, datasetVars,
                    result >>

\* task_type_parameters, by task type
SetTaskTypeParameters ==
    /\ pc = "parameters"
    /\ IF fields.task_type = "Batch"
       THEN /\ fields' = [fields EXCEPT !.task_type_parameters =
                             <<"alone", <<"", "">>, evaluation_param>>]
            /\ pc' = "tests"
            /\ UNCHANGED error
       ELSE IF fields.task_type = "Communication"
       THEN IF task_config.node_count = Absent
            THEN /\ Raise(BuiltinError("KeyError", "node_count"))
                 /\ UNCHANGED fields
            ELSE IF task_config.io_type = Absent
            THEN /\ Raise(BuiltinError("KeyError", "io_type"))
                 /\ UNCHANGED fields
            ELSE /\ fields' = [fields EXCEPT !.task_type_parameters =
                       <<task_config.node_count[1], "alone", task_config.io_type[1]>>]
                 /\ pc' = "tests"
                 /\ UNCHANGED error
       ELSE /\ pc' = "tests"
            /\ UNCHANGED << error, fields >>
    /\ UNCHANGED << envVars, user_entry, contestVars, puts, kg_file, task_config, att_i, task, datasetVars,
                    result >>

\* IOPair(): both slots empty
IOPair(base) == [base |-> base, input |-> Absent, output |-> Absent]

IndexOfBase(bases, base) ==
    IF \E i \in DOMAIN bases : bases[i].base = base
    THEN CHOOSE i \in DOMAIN bases : bases[i].base = base
    ELSE 0

\* the scan loop over os.listdir(tests_path): the accumulator it leaves and
\* the file it raised on, if any.  test_bases[test_base] creates the entry
\* of a new stem before the extension is looked at.
RECURSIVE ScanTests(_, _)
ScanTests(files, bases) ==
    IF files = <<>> THEN [bases |-> bases, unrecognized |-> Absent]
    ELSE LET test_filename == Head(files)
             split == splitext(test_filename)
             k == IndexOfBase(bases, split.root)
             entered == IF k = 0 THEN Append(bases, IOPair(split.root)) ELSE bases
             j == IF k = 0 THEN Len(entered) ELSE k
         IN IF split.ext = ExtIn
            THEN ScanTests(Tail(files), [entered EXCEPT ![j].input = Some(test_filename)])
            ELSE IF split.ext = ExtAns
            THEN ScanTests(Tail(files), [entered EXCEPT ![j].output = Some(test_filename)])
            ELSE [bases |-> entered, unrecognized |-> Some(test_filename)]

\* read test data from tests/
ReadTestData ==
    /\ pc = "tests"
    /\ \E l \in Listings :
         LET scan == ScanTests(l, <<>>) IN
         /\ listing' = Some(l)
         /\ test_bases' = scan.bases
         /\ IF scan.unrecognized # Absent
            THEN Raise(KGLoaderException("UnrecognizedFile", scan.unrecognized[1]))
            ELSE /\ pc' = "check_io"
                 /\ UNCHANGED error
    /\ UNCHANGED << envVars, user_entry, contestVars, puts, kg_file, task_config, fields, att_i, task,
                    checker_found, evaluation_param, tc_i, dataset, result >>

BadIOFirstOnly(bases) ==
    LET bad == SelectSeq(bases, LAMBDA p : p.input = Absent \/ p.output = Absent)
    IN  IF bad = <<>> THEN <<>> ELSE <<bad[1].base>>

\* the stems of the accumulator with a slot left empty, in its order
BadIO(bases) ==
    LET bad == SelectSeq(bases, LAMBDA p : p.input = Absent \/ p.output = Absent)
    IN  [i \in 1..Len(bad) |-> bad[i].base]

\* check for missing I/O
CheckMissingIO ==
    /\ pc = "check_io"
    /\ LET bad_io == BadIO(test_bases) IN
       IF bad_io # <<>>
       THEN Raise(KGLoaderException("IncompleteTestCase", bad_io))
       ELSE /\ pc' = "check_empty"
            /\ UNCHANGED error
    /\ UNCHANGED << envVars, user_entry, contestVars, puts, kg_file, task_config, fields, att_i, task,
                    datasetVars, result >>

NoTestsNever(bases) == FALSE

\* `not test_bases`
NoTests(bases) == bases = <<>>

CheckEmpty ==
    /\ pc = "check_empty"
    /\ IF NoTests(test_bases)
       THEN Raise(KGLoaderException("EmptyTestSet", "tests"))
       ELSE /\ pc' = "testcases"
            /\ UNCHANGED error
    /\ UNCHANGED << envVars, user_entry, contestVars, puts, kg_file, task_config, fields, att_i, task,
                    datasetVars, result >>

RECURSIVE SortByBase(_)
SortByBase(items) ==
    IF items = {} THEN <<>>
    ELSE LET least == CHOOSE e \in items :
                         \A o \in items \ {e} : StrLess(e.base, o.base)
         IN  <<least>> \o SortByBase(items \ {least})

sortedInsertionOrder(bases) == bases

\* sorted(test_bases.items()): by stem, in Python's string order
sorted(bases) == SortByBase(Range(bases))

Testcase(codename, public, input, output) ==
    [codename |-> codename, public |-> public, input |-> input, output |-> output]

\* load test cases: one iteration of the loop, or its end
LoadTestcase ==
    /\ pc = "testcases"
    /\ LET order == sorted(test_bases) IN
       IF tc_i >= Len(order)
       THEN /\ pc' = "dataset"
            /\ UNCHANGED << puts, fields, tc_i >>
       ELSE LET test_base == order[tc_i + 1] IN
            /\ puts' = puts \o << PutCall("input", test_base.input[1]),
                                  PutCall("output", test_base.output[1]) >>
            /\ fields' = [fields EXCEPT !.testcases = Append(@,
                             Testcase(test_base.base, TRUE,
                                      Digest(test_base.input[1]),
                                      Digest(test_base.output[1])))]
            /\ tc_i' = tc_i + 1
            /\ UNCHANGED pc
    /\ UNCHANGED << envVars, user_entry, contestVars, error, kg_file, task_config, att_i, task, checker_found,
                    evaluation_param, listing, test_bases, dataset, result >>

\* Dataset(**fields)
Dataset(kwargs) == kwargs

CreateDataset ==
    /\ pc = "dataset"
    /\ dataset' = Dataset(fields)
    /\ pc' = "attach"
    /\ UNCHANGED << envVars, user_entry, contestVars, error, puts, kg_file, task_config, fields, att_i, task,
                    checker_found, evaluation_param, listing, test_bases, tc_i, result >>

WithActiveDatasetUnset(t, d) == t

\* the Task after `task.active_dataset = dataset`
WithActiveDataset(t, d) == [t EXCEPT !.active_dataset = d]

\* task.active_dataset = dataset
SetActiveDataset ==
    /\ pc = "attach"
    /\ task' = WithActiveDataset(task, dataset)
    /\ pc' = "return_task"
    /\ UNCHANGED << envVars, user_entry, contestVars, error, puts, kg_file, task_config, fields, att_i,
                    datasetVars, result >>

\* get_task: return task
ReturnTask ==
    /\ pc = "return_task"
    /\ result' = task
    /\ pc' = "returned"
    /\ UNCHANGED << envVars, user_entry, contestVars, error, puts, kg_file, task_config, fields, att_i, task,
                    datasetVars >>

\* --------------------------------------------- KGContestLoader.get_contest
\* the exception of a candidate loop that found the file nowhere
MissingDescriptor(filename) == KGLoaderException("MissingDescriptor", filename)

\* _get_contest_config: one candidate directory, or the loop's else branch
FindContestConfig ==
    /\ call.name = "get_contest" /\ pc = "start"
    /\ LET candidates == contest_path_candidates(path) IN
       IF cand >= Len(candidates)
       THEN /\ Raise(MissingDescriptor(KG_CONTEST))
            /\ UNCHANGED << cand, contest_config, kg_file >>
       ELSE LET directory == candidates[cand + 1] IN
            IF directory \in fs[KG_CONTEST]
            THEN /\ \E c \in ContestConfigs : contest_config' = c
                 /\ kg_file' = [kg_file EXCEPT ![KG_CONTEST] = Some(directory)]
                 /\ pc' = "contest_fields"
                 /\ UNCHANGED << cand, error >>
            ELSE /\ cand' = cand + 1
                 /\ UNCHANGED << pc, error, contest_config, kg_file >>
    /\ UNCHANGED << envVars, user_entry, taskVars, puts, fields, contest, tasks, user_list,
                    participations, result >>

LanguageNameNoDefault(lang) ==
    IF lang \in DOMAIN LANGUAGE_MAPPING THEN LANGUAGE_MAPPING[lang] ELSE None

\* LANGUAGE_MAPPING.get(lang, lang)
LanguageName(lang) ==
    IF lang \in DOMAIN LANGUAGE_MAPPING THEN LANGUAGE_MAPPING[lang] ELSE lang

\* Contest(**fields)
Contest(kwargs) == kwargs

\* _get_contest: the basic fields, the language names, then Contest(**fields)
BuildContest ==
    /\ pc = "contest_fields"
    /\ LET languages == Get(contest_config, "languages", DefaultLanguages) IN
       fields' = [name |-> Get(contest_config, "name", None),
                  languages |-> [i \in DOMAIN languages |-> LanguageName(languages[i])]]
    /\ contest' = Contest(fields')
    /\ pc' = "problems"
    /\ UNCHANGED << envVars, user_entry, taskVars, error, puts, kg_file, cand, contest_config,
                    tasks, user_list, participations, result >>

\* get_contest: tasks = contest_config['problems']
GetProblems ==
    /\ pc = "problems"
    /\ IF contest_config.problems = Absent
       THEN /\ Raise(BuiltinError("KeyError", "problems"))
            /\ UNCHANGED << tasks, cand >>
       ELSE /\ tasks' = contest_config.problems
            /\ cand' = 0
            /\ pc' = "user_list"
            /\ UNCHANGED error
    /\ UNCHANGED << envVars, user_entry, taskVars, puts, kg_file, fields, contest_config, contest,
                    user_list, participations, result >>

\* _get_user_list: one candidate directory, or the loop's else branch
FindUserList ==
    /\ pc = "user_list"
    /\ LET candidates == contest_path_candidates(path) IN
       IF cand >= Len(candidates)
       THEN /\ Raise(MissingDescriptor(KG_USERS))
            /\ UNCHANGED << cand, user_list, kg_file >>
       ELSE LET directory == candidates[cand + 1] IN
            IF directory \in fs[KG_USERS]
            THEN /\ \E u \in UserLists : user_list' = Some(u)
                 /\ kg_file' = [kg_file EXCEPT ![KG_USERS] = Some(directory)]
                 /\ pc' = IF call.name = "get_user" THEN "match_user" ELSE "participations"
                 /\ UNCHANGED << cand, error >>
            ELSE /\ cand' = cand + 1
                 /\ UNCHANGED << pc, error, user_list, kg_file >>
    /\ UNCHANGED << envVars, user_entry, taskVars, puts, fields, contest_config, contest, tasks,
                    participations, result >>

\* cmscommon.crypto.build_password with its default method
build_password(password) == "plaintext:" \o password

\* _get_minimal_participations: the entries of type 'user', in order
MinimalParticipations ==
    /\ pc = "participations"
    /\ LET users == SelectSeq(user_list[1], LAMBDA user : user.type = "user") IN
       participations' = Some([i \in DOMAIN users |->
                                 [username |-> users[i].username,
                                  password |-> build_password(users[i].password)]])
    /\ pc' = "return_contest"
    /\ UNCHANGED << envVars, user_entry, taskVars, error, puts, kg_file, fields, cand,
                    contest_config, contest, tasks, user_list, result >>

\* get_contest: return contest, tasks, participations
ReturnContest ==
    /\ pc = "return_contest"
    /\ result' = [contest |-> contest, tasks |-> tasks[1],
                  participations |-> participations[1]]
    /\ pc' = "returned"
    /\ UNCHANGED << envVars, user_entry, taskVars, contestVars, error, puts, kg_file, fields >>

\* ------------------------------------------------ KGContestLoader.get_user
\* get_user: username = os.path.basename(self.path), then the call of
\* _get_user_list
GetUsername ==
    /\ call.name = "get_user" /\ pc = "start"
    /\ pc' = "user_list"
    /\ UNCHANGED << envVars, user_entry, taskVars, contestVars, error, puts, kg_file, fields,
                    result >>

QualifiesByUsernameOnly(entry, username) == entry.username = username

\* user['type'] == 'user' and user['username'] == username
Qualifies(entry, username) == entry.type = "user" /\ entry.username = username

\* the values the optional keys of a user-list entry may have
FirstNames == Opt({None, "", "Al"})
LastNames == Opt({None, "", "Li"})
Timezones == Opt({"UTC"})

\* user.get(key) or ''
OrEmpty(value) == IF value \in {Absent, Some(None), Some("")} THEN "" ELSE value[1]

\* User(...)
User(username, password, first_name, last_name, timezone) ==
    [username |-> username, password |-> password, first_name |-> first_name,
     last_name |-> last_name, timezone |-> timezone]

\* get_user: the loop over the user list; the first qualifying entry is
\* returned as a User, the loop's else branch raises
GetUser ==
    /\ pc = "match_user"
    /\ LET username == basename(path)
           users == user_list[1]
           matches == {i \in DOMAIN users : Qualifies(users[i], username)}
       IN
       IF matches = {}
       THEN /\ Raise(KGLoaderException("UnknownUser", username))
            /\ UNCHANGED << user_entry, result >>
       ELSE LET entry == users[CHOOSE i \in matches : \A j \in matches : i <= j] IN
            \E first_name \in FirstNames, last_name \in LastNames, timezone \in Timezones :
              /\ user_entry' = [type |-> entry.type, username |-> entry.username,
                          password |-> entry.password, first_name |-> first_name,
                          last_name |-> last_name, timezone |-> timezone]
              /\ result' = User(entry.username, build_password(entry.password),
                                OrEmpty(first_name), OrEmpty(last_name),
                                Get(user_entry', "timezone", None))
              /\ pc' = "returned"
              /\ UNCHANGED error
    /\ UNCHANGED << envVars, taskVars, contestVars, puts, kg_file, fields >>

Next ==
    \/ GetTaskConfig
    \/ InitTaskFields
    \/ LoadStatement
    \/ LoadAttachment
    \/ SetTaskType
    \/ SetChecker
    \/ SetManager
    \/ SetTaskTypeParameters
    \/ ReadTestData
    \/ CheckMissingIO
    \/ CheckEmpty
    \/ LoadTestcase
    \/ CreateDataset
    \/ SetActiveDataset
    \/ ReturnTask
    \/ FindContestConfig
    \/ BuildContest
    \/ GetProblems
    \/ FindUserList
    \/ MinimalParticipations
    \/ ReturnContest
    \/ GetUsername
    \/ GetUser

Spec == Init /\ [][Next]_vars

\* ======================================================================
\* Properties
\* ======================================================================
Stems == { <<"1", "0">>, <<"9">> }

InFile(stem) == stem \o ExtIn
AnsFile(stem) == stem \o ExtAns

\* the entries of tests/, once listed
Listed == IF listing = Absent THEN {} ELSE Range(listing[1])

\* tests/ holds <stem>.in and <stem>.ans files of the stems only
OnlyInAnsFiles ==
    /\ listing # Absent
    /\ Listed \subseteq {InFile(s) : s \in Stems} \cup {AnsFile(s) : s \in Stems}

InputStems == {s \in Stems : InFile(s) \in Listed}
OutputStems == {s \in Stems : AnsFile(s) \in Listed}
IncompleteStems == (InputStems \cup OutputStems) \ (InputStems \cap OutputStems)

\* tests/ holds only complete pairs, of at least one stem
CompletePairsOnly ==
    OnlyInAnsFiles /\ IncompleteStems = {} /\ InputStems # {}

\* the put calls of test inputs and outputs, in the order issued
TestPuts == SelectSeq(puts, LAMBDA c : c.what \in {"input", "output"})

Failed(kind) == pc = "raised" /\ error.exc = "KGLoaderException" /\ error.kind = kind

\* C1: a tests/ directory of N complete <stem>.in/<stem>.ans pairs never makes
\* dataset assembly fail, and the Dataset has exactly N Testcases, one per
\* stem and keyed by it, created (blob-store puts: input then output) and
\* inserted in increasing string order of the stems, whatever the order of
\* the directory listing.
C1_TestcasesInStemOrder ==
    CompletePairsOnly =>
      /\ pc # "raised"
      /\ dataset # NoObject =>
           LET tcs == dataset.testcases IN
           /\ Len(tcs) = Cardinality(InputStems)
           /\ {tcs[i].codename : i \in DOMAIN tcs} = InputStems
           /\ \A i, j \in DOMAIN tcs : i < j => StrLess(tcs[i].codename, tcs[j].codename)
           /\ (InputStems = Stems => tcs[1].codename = <<"1", "0">>)
           /\ Len(TestPuts) = 2 * Len(tcs)
           /\ \A i \in DOMAIN tcs :
                /\ TestPuts[2 * i - 1] = PutCall("input", InFile(tcs[i].codename))
                /\ TestPuts[2 * i] = PutCall("output", AnsFile(tcs[i].codename))

\* C1 witness: two pairs listed with stem 9 first; the Dataset starts with 10
C1_Witness ==
    /\ dataset # NoObject
    /\ CompletePairsOnly
    /\ Len(listing[1]) = 4
    /\ listing[1][1] = AnsFile(<<"9">>)
    /\ Len(dataset.testcases) = 2
    /\ dataset.testcases[1].codename = <<"1", "0">>

\* C2: when tests/ holds only .in and .ans files and some stem has one slot
\* only, assembly fails with IncompleteTestCase listing exactly the
\* incomplete stems, each once; no Testcase and no Dataset is created.
C2_AllIncompleteStemsReported ==
    (OnlyInAnsFiles /\ IncompleteStems # {} /\ pc # "check_io") =>
      /\ Failed("IncompleteTestCase")
      /\ Range(error.arg) = IncompleteStems
      /\ Len(error.arg) = Cardinality(IncompleteStems)
      /\ fields.testcases = <<>>
      /\ TestPuts = <<>>
      /\ dataset = NoObject
      /\ task.active_dataset = NoObject

\* C2 witness: two incomplete stems, both reported
C2_Witness ==
    /\ Failed("IncompleteTestCase")
    /\ listing = Some(<< InFile(<<"9">>), AnsFile(<<"1", "0">>) >>)
    /\ Len(error.arg) = 2

\* the descriptor's name is absent, null or empty
TaskNameMissing ==
    /\ call.name = "get_task"
    /\ task_config # NoObject
    /\ task_config.name \in {Absent, Some(None), Some("")}

\* C3: a task descriptor without a name makes task loading fail with
\* MissingField, and no blob-store put has been issued when it fails.
C3_MissingNameFailsBeforeAnyPut ==
    (TaskNameMissing /\ pc # "task_fields") =>
      /\ Failed("MissingField")
      /\ puts = <<>>
      /\ task = NoObject
      /\ result = NoObject

\* C3 witness: an empty name, statement requested, the load has failed
C3_Witness ==
    /\ TaskNameMissing
    /\ task_config.name = Some("")
    /\ task_config.statement # Absent
    /\ call.get_statement
    /\ Failed("MissingField")

\* the Manager `checker` is stored exactly when the checker file was found
CheckerStoredIffPresent ==
    ("checker" \in DOMAIN dataset.managers) <=> checker_found[1]

\* C4 as claimed: every Dataset's task-type parameters carry "comparator" if
\* the checker file is present and "diff" otherwise.
C4_EvaluationParamEveryTaskType ==
    dataset # NoObject =>
      /\ dataset.task_type_parameters[3] =
            (IF checker_found[1] THEN "comparator" ELSE "diff")
      /\ CheckerStoredIffPresent

\* C4 amended: for a Batch task the parameters are ("alone", ("", ""), e)
\* with e = "comparator" if the checker file is present and "diff" otherwise;
\* for a Communication task they are (node_count, "alone", io_type), a number
\* and two strings none of which is an evaluation parameter; for both the Manager `checker` is stored exactly
\* when the file is present.
C4_EvaluationParamBatch ==
    dataset # NoObject =>
      /\ dataset.task_type \in {"Batch", "Communication"}
      /\ dataset.task_type = "Batch" =>
           dataset.task_type_parameters =
             << "alone", <<"", "">>, IF checker_found[1] THEN "comparator" ELSE "diff" >>
      /\ dataset.task_type = "Communication" =>
           /\ dataset.task_type_parameters =
                << task_config.node_count[1], "alone", task_config.io_type[1] >>
           /\ \A i \in 2..3 : dataset.task_type_parameters[i] \notin {"comparator", "diff"}
      /\ CheckerStoredIffPresent

\* C4 witness: a Batch Dataset built with the checker present
C4_Witness ==
    /\ dataset # NoObject
    /\ dataset.task_type = "Batch"
    /\ checker_found = Some(TRUE)
    /\ dataset.task_type_parameters[3] = "comparator"

\* C5: a failed load returns nothing; a returned Task is the constructed Task
\* with its active dataset set; the only change a Task undergoes after its
\* construction is that assignment, made once (from unset to the Dataset).
C5_NoPartialTask ==
    /\ [](pc = "raised" => result = NoObject)
    /\ []((call.name = "get_task" /\ result # NoObject) =>
            /\ error = NoObject
            /\ result = task
            /\ dataset # NoObject
            /\ result.active_dataset = dataset)
    /\ [][(task # NoObject /\ task' # task) =>
            /\ task.active_dataset = NoObject
            /\ dataset # NoObject
            /\ task' = [task EXCEPT !.active_dataset = dataset]]_vars

\* C5 witness: a Task has been returned
C5_Witness ==
    /\ call.name = "get_task"
    /\ pc = "returned"
    /\ result # NoObject
    /\ result.active_dataset # NoObject

\* C6 as claimed: contest assembly returns no Contest when the contest
\* descriptor has no name (absent, null or empty).
C6_ContestNameRequired ==
    (call.name = "get_contest" /\ pc = "returned") =>
      contest_config.name \notin {Absent, Some(None), Some("")}

\* the first candidate directory that holds the file, if any
Holders(f) == {i \in 1..2 : <<path, dirname(path)>>[i] \in fs[f]}
FirstHolder(f) ==
    <<path, dirname(path)>>[CHOOSE i \in Holders(f) : \A j \in Holders(f) : i <= j]

\* the search for the file has ended
Located(f) ==
    CASE f = KG_TASK -> call.name = "get_task" /\ pc # "start"
      [] f = KG_CONTEST -> call.name = "get_contest" /\ pc # "start"
      [] f = KG_USERS -> (tasks # Absent \/ call.name = "get_user")
                           /\ pc \notin {"start", "user_list"}

\* the file was searched in the directory, then in its parent
CandidateRule(f) ==
    Located(f) =>
      IF Holders(f) # {}
      THEN kg_file[f] = Some(FirstHolder(f))
      ELSE Failed("MissingDescriptor") /\ error.arg = f /\ kg_file[f] = Absent

C8_LanguagesElementwise ==
    contest # NoObject =>
      IF contest_config.languages = Absent
      THEN contest.languages = << "C++17 / g++", "Java / JDK", "Python 3 / CPython" >>
      ELSE LET given == contest_config.languages[1] IN
           /\ Len(contest.languages) = Len(given)
           /\ \A i \in DOMAIN given :
                /\ given[i] = "cpp" => contest.languages[i] = "C++17 / g++"
                /\ given[i] = "java" => contest.languages[i] = "Java / JDK"
                /\ given[i] = "unknown-lang" => contest.languages[i] = "unknown-lang"

\* C8 witness: the list cpp, java, unknown-lang has been normalised
C8_Witness ==
    /\ contest # NoObject
    /\ contest_config.languages = Some(<< "cpp", "java", "unknown-lang" >>)
    /\ contest.languages = << "C++17 / g++", "Java / JDK", "unknown-lang" >>

NonEmptyAndPaired(d) ==
    /\ Len(d.testcases) >= 1
    /\ \A i \in DOMAIN d.testcases :
         LET tc == d.testcases[i] IN
         /\ InFile(tc.codename) \in Listed
         /\ AnsFile(tc.codename) \in Listed
         /\ tc.input = Digest(InFile(tc.codename))
         /\ tc.output = Digest(AnsFile(tc.codename))

\* C9: an empty tests/ makes assembly fail with EmptyTestSet; every Dataset
\* constructed, and every active dataset of a Task, has at least one
\* Testcase, each with the digests of the .in and .ans files of its stem.
C9_DatasetNeverEmpty ==
    /\ (listing = Some(<<>>) /\ pc \notin {"check_io", "check_empty"}) =>
          Failed("EmptyTestSet") /\ dataset = NoObject
    /\ dataset # NoObject => NonEmptyAndPaired(dataset)
    /\ task # NoObject =>
          (task.active_dataset # NoObject => NonEmptyAndPaired(task.active_dataset))

\* C9 witness: tests/ was listed empty and the load has failed
C9_Witness ==
    /\ listing = Some(<<>>)
    /\ Failed("EmptyTestSet")
    /\ task # NoObject

\* C10 as claimed: when task loading fails with UnsupportedTaskType, no Task
\* has been constructed and no statement or attachment has been put into
\* the blob store.
C10_UnsupportedTypeRejectedFirst ==
    Failed("UnsupportedTaskType") => (task = NoObject /\ puts = <<>>)
\* the trailing segment of the import path
LastSegment == IF Len(path) = 0 THEN "" ELSE path[Len(path)]

\* the user-list entries of type "user" whose username is the trailing segment
OrdinaryUsersNamed(name) ==
    {i \in DOMAIN user_list[1] :
        user_list[1][i].type = "user" /\ user_list[1][i].username = name}

Unset(value) == value = Absent \/ value = Some(None) \/ value = Some("")

\* C11: once get_user has read the user list, it returns a User exactly when
\* some entry has type "user" and the trailing path segment as its username;
\* the User is built from such an entry (never from an entry of another
\* type), with first and last name "" when missing; when no entry qualifies
\* it fails with UnknownUser naming that segment and returns nothing.
C11_UserResolvedByTypeAndName ==
    (call.name = "get_user" /\ user_list # Absent /\ pc # "match_user") =>
      IF OrdinaryUsersNamed(LastSegment) = {}
      THEN /\ Failed("UnknownUser")
           /\ error.arg = LastSegment
           /\ result = NoObject
      ELSE /\ pc = "returned"
           /\ error = NoObject
           /\ user_entry.type = "user"
           /\ user_entry.username = LastSegment
           /\ \E i \in OrdinaryUsersNamed(LastSegment) :
                /\ user_list[1][i].password = user_entry.password
           /\ result.username = LastSegment
           /\ result.password = "plaintext:pw"
           /\ result.first_name = (IF Unset(user_entry.first_name) THEN "" ELSE user_entry.first_name[1])
           /\ result.last_name = (IF Unset(user_entry.last_name) THEN "" ELSE user_entry.last_name[1])
           /\ result.first_name # None /\ result.last_name # None

\* C11 witness: an admin entry named alice precedes the user entry named
\* alice; the User was built from the latter, its missing first name is ""
C11_Witness ==
    /\ call.name = "get_user"
    /\ pc = "returned"
    /\ user_list = Some(<< [type |-> "admin", username |-> "alice", password |-> "pw"],
                           [type |-> "user", username |-> "alice", password |-> "pw"] >>)
    /\ user_entry.first_name = Absent
    /\ user_entry.last_name = Some("Li")
    /\ result.first_name = ""
    /\ result.last_name = "Li"
====
